---------------------------- MODULE Spec2Model ----------------------------
(* Model of make_break.py: a persistent breakpoint store for lldb.        *)
(* One invocation of the script (load, one command, possibly save) is one *)
(* step.  A path is a sequence of components, "/" first when absolute.    *)
EXTENDS Integers, Sequences, FiniteSets

(* ------------------------------ bounds ------------------------------ *)
MaxCmds == 3
MaxLine == 2

Lines == 1..MaxLine

(* --------------------------- path helpers --------------------------- *)
None == <<>>

Cwd == <<"/", "w">>

LASTUSED == <<"LASTUSED">>

IsAbs(p) == p # <<>> /\ p[1] = "/"

Last(s) == s[Len(s)]

Front(s) == SubSeq(s, 1, Len(s) - 1)

RECURSIVE NormComps(_, _, _)
NormComps(comps, acc, abs) ==
    IF comps = <<>> THEN acc
    ELSE LET c == Head(comps)
             rest == Tail(comps)
         IN IF c = "." THEN NormComps(rest, acc, abs)
            ELSE IF \/ c # ".."
                    \/ (~abs /\ acc = <<>>)
                    \/ (acc # <<>> /\ Last(acc) = "..")
                 THEN NormComps(rest, Append(acc, c), abs)
            ELSE IF acc # <<>> THEN NormComps(rest, Front(acc), abs)
            ELSE NormComps(rest, acc, abs)

normpath(p) ==
    LET abs == IsAbs(p)
        comps == IF abs THEN Tail(p) ELSE p
        acc == NormComps(comps, <<>>, abs)
    IN IF abs THEN <<"/">> \o acc
       ELSE IF acc = <<>> THEN <<".">> ELSE acc

abspath(p) == IF IsAbs(p) THEN normpath(p) ELSE normpath(Cwd \o p)

(* mutant: the path is normalised but never made absolute *)
canon_path_NormOnly(filename) == normpath(filename)

canon_path(filename) == abspath(normpath(filename))

basename(p) == Last(p)

splitext_root(name) ==
    CASE name = "foo.out" -> "foo"
      [] name = "main.c" -> "main"
      [] name = "util.c" -> "util"
      [] OTHER -> name

raw_name(filename) == splitext_root(basename(filename))


(* ------------------------ ordered dictionaries ------------------------ *)
(* _data is a Python dict (insertion ordered): a sequence of entries.    *)
(* k: the key; v: the value of the "LASTUSED" key; b: the "Breakpoints"  *)
(* dict of an executable key, a sequence of [src, lines] items.          *)
Entry(k, v, b) == [k |-> k, v |-> v, b |-> b]

Item(src, lines) == [src |-> src, lines |-> lines]

Keys(d) == {d[i].k : i \in 1..Len(d)}

HasKey(d, k) == \E i \in 1..Len(d) : d[i].k = k

KeyIndex(d, k) == CHOOSE i \in 1..Len(d) : d[i].k = k

Breakpoints(d, k) == d[KeyIndex(d, k)].b

HasSrc(b, src) == \E i \in 1..Len(b) : b[i].src = src

SrcIndex(b, src) == CHOOSE i \in 1..Len(b) : b[i].src = src

Contains(s, x) == \E i \in 1..Len(s) : s[i] = x

(* list.remove: drops the first occurrence *)
Remove(s, x) ==
    LET i == CHOOSE j \in 1..Len(s) : s[j] = x /\ \A m \in 1..(j - 1) : s[m] # x
    IN SubSeq(s, 1, i - 1) \o SubSeq(s, i + 1, Len(s))

(* ------------------------------ DbgConfig ----------------------------- *)
NoFile == [exists |-> FALSE, data |-> <<>>]

load(cfg) == IF cfg.exists THEN cfg.data ELSE <<>>

get_last_used(data) ==
    IF HasKey(data, LASTUSED) THEN data[KeyIndex(data, LASTUSED)].v ELSE None

set_last_used(data, executable) ==
    LET e == Entry(LASTUSED, canon_path(executable), <<>>)
    IN IF HasKey(data, LASTUSED)
       THEN [data EXCEPT ![KeyIndex(data, LASTUSED)] = e]
       ELSE Append(data, e)

AddKey(data, filename) ==
    IF ~HasKey(data, filename) THEN Append(data, Entry(filename, None, <<>>))
    ELSE data

add_executable(data, filename) ==
    AddKey(set_last_used(data, canon_path(filename)), canon_path(filename))

(* mutant: a new line is put in front of the list *)
ToggleLine_Prepend(breakpoints, line) ==
    IF Contains(breakpoints, line) THEN Remove(breakpoints, line)
    ELSE <<line>> \o breakpoints

(* mutant: a line is added without looking for it *)
ToggleLine_AlwaysAppend(breakpoints, line) == Append(breakpoints, line)

(* the list update of lines 98-101 *)
ToggleLine(breakpoints, line) ==
    IF Contains(breakpoints, line) THEN Remove(breakpoints, line)
    ELSE Append(breakpoints, line)

(* result of a method: the store it leaves and the exception it raised *)
Res(data, err) == [data |-> data, err |-> err]

SetLines(b, j, lines) == [b EXCEPT ![j].lines = lines]

(* lines 92-101 on the "Breakpoints" dict of the executable *)
ToggleItem(b, source_file, line) ==
    IF ~HasSrc(b, source_file) THEN Append(b, Item(source_file, <<line>>))
    ELSE SetLines(b, SrcIndex(b, source_file),
                  ToggleLine(b[SrcIndex(b, source_file)].lines, line))

SetBreakpoints(data, i, b) == [data EXCEPT ![i].b = b]

(* lines 92-101: self._data[executable] raises KeyError for an unknown key *)
ToggleEntry(data, executable, source_file, line) ==
    IF ~HasKey(data, executable) THEN Res(data, "KeyError")
    ELSE Res(SetBreakpoints(data, KeyIndex(data, executable),
                            ToggleItem(Breakpoints(data, executable), source_file, line)),
             "")

(* lines 91-101: add_executable(None) raises TypeError in canon_path *)
ToggleResolved(data, executable, source_file, line) ==
    IF executable = None THEN Res(data, "TypeError")
    ELSE ToggleEntry(add_executable(data, executable), executable, source_file, line)

toggle_breakpoint(data, executable, source_file, line) ==
    IF executable = None
    THEN ToggleResolved(data, get_last_used(data), basename(source_file), line)
    ELSE ToggleResolved(set_last_used(data, canon_path(executable)),
                        canon_path(executable), basename(source_file), line)

LinesAt(data, ex, j) == Breakpoints(data, ex)[j].lines

SrcAt(data, ex, j) == Breakpoints(data, ex)[j].src

RECURSIVE CleanLines(_, _, _, _)
(* the body of the inner loop has run: go on with the index below *)
CleanLinesNext(r, ex, j, i) ==
    IF r.err # "" \/ ~HasKey(r.data, ex) THEN r
    ELSE CleanLines(r.data, ex, j, i - 1)

(* for line_ in reversed(lines): the iterator walks the live list by index *)
CleanLines(data, ex, j, i) ==
    IF i >= 1 /\ i <= Len(LinesAt(data, ex, j))
    THEN CleanLinesNext(toggle_breakpoint(data, ex, <<SrcAt(data, ex, j)>>,
                                          LinesAt(data, ex, j)[i]),
                        ex, j, i)
    ELSE Res(data, "")

RECURSIVE CleanItems(_, _, _)
CleanItemsNext(r, ex, j) ==
    IF r.err # "" \/ ~HasKey(r.data, ex) THEN r
    ELSE CleanItems(r.data, ex, j + 1)

(* for source_file, lines in ...["Breakpoints"].items() *)
CleanItems(data, ex, j) ==
    IF j > Len(Breakpoints(data, ex)) THEN Res(data, "")
    ELSE CleanItemsNext(CleanLines(data, ex, j, Len(LinesAt(data, ex, j))), ex, j)

(* lines 107-108: the key is the executable as given, not canonicalised *)
CleanKey(data, ex) ==
    IF ~HasKey(data, ex) THEN Res(data, "KeyError")
    ELSE CleanItems(data, ex, 1)

clean_breakpoints(data, executable) ==
    CleanKey(data, IF executable = None THEN get_last_used(data) ELSE executable)

(* os.path.isfile: relative names are resolved against the working directory *)
isfile(files, filename) == abspath(filename) \in files

FileCmd(filename) == [cmd |-> "file", path |-> filename, src |-> "", line |-> 0]

BreakCmd(source_file, line) ==
    [cmd |-> "breakpoint set", path |-> None, src |-> source_file, line |-> line]

RECURSIVE LineCmds(_, _, _)
LineCmds(src, lines, i) ==
    IF i > Len(lines) THEN <<>>
    ELSE <<BreakCmd(src, lines[i])>> \o LineCmds(src, lines, i + 1)

RECURSIVE ItemCmds(_, _)
ItemCmds(b, j) ==
    IF j > Len(b) THEN <<>>
    ELSE LineCmds(b[j].src, b[j].lines, 1) \o ItemCmds(b, j + 1)

(* mutant: the target command is written after the breakpoints *)
Commands_TargetLast(e) == ItemCmds(e.b, 1) \o <<FileCmd(e.k)>>

(* the commands list built at lines 149-158; "\n".join keeps the order *)
Commands(e) == <<FileCmd(e.k)>> \o ItemCmds(e.b, 1)

(* the .lldb file a key is exported to, named without directory or suffix *)
command_filename(filename) == raw_name(filename)

WriteFile(dir, name, content) ==
    [x \in (DOMAIN dir) \cup {name} |-> IF x = name THEN content ELSE dir[x]]

Written(name, key, content) == [name |-> name, key |-> key, content |-> content]

Exp(dir, log, err) == [dir |-> dir, log |-> log, err |-> err]

RECURSIVE ExportFrom(_, _, _, _, _)
ExportFrom(data, files, i, dir, log) ==
    IF i > Len(data) THEN Exp(dir, log, "")
    ELSE IF ~isfile(files, data[i].k) THEN ExportFrom(data, files, i + 1, dir, log)
    ELSE IF data[i].k = LASTUSED THEN Exp(dir, log, "TypeError")
    ELSE ExportFrom(data, files, i + 1,
                    WriteFile(dir, command_filename(data[i].k), Commands(data[i])),
                    Append(log, Written(command_filename(data[i].k), data[i].k,
                                        Commands(data[i]))))

export_commands(data, files, dir) == ExportFrom(data, files, 1, dir, <<>>)

Saved(cfg, dir, log, err) == [cfg |-> cfg, dir |-> dir, log |-> log, err |-> err]

(* json.dump after the export: an exception in the export skips it *)
Dump(data, cfg, e) ==
    IF e.err # "" THEN Saved(cfg, e.dir, e.log, e.err)
    ELSE Saved([exists |-> TRUE, data |-> data], e.dir, e.log, "")

save(data, files, cfg, dir) == Dump(data, cfg, export_commands(data, files, dir))

EmptyDir == [x \in {} |-> <<>>]

(* clean: os.remove of a missing config.json raises before the scan *)
clean(cfg, dir) ==
    IF ~cfg.exists THEN Saved(cfg, dir, <<>>, "FileNotFoundError")
    ELSE Saved(NoFile, EmptyDir, <<>>, "")

Launch(mode, script, target) == [mode |-> mode, script |-> script, target |-> target]

NoLaunch == Launch("", "", None)

Debugged(data, err, launch) == [data |-> data, err |-> err, launch |-> launch]

(* lines 139-142 *)
Exec(data, executable, name) ==
    Debugged(data, "",
             IF HasKey(data, executable) THEN Launch("script", name, None)
             ELSE Launch("direct", "", executable))

(* lines 134-142: the script name is taken from the spelling as given; *)
(* raw_name of None raises TypeError                                   *)
DebugResolved(data, executable) ==
    IF executable = None THEN Debugged(data, "TypeError", NoLaunch)
    ELSE Exec(set_last_used(data, canon_path(executable)), canon_path(executable),
              command_filename(executable))

debug(data, executable) ==
    DebugResolved(data, IF executable = None THEN get_last_used(data) ELSE executable)

(* print_breakpoints changes nothing: os.path.basename(None) raises, an *)
(* unknown executable is caught (line 124)                              *)
print_breakpoints(data, executable) ==
    Res(data, IF executable = None /\ get_last_used(data) = None THEN "TypeError"
              ELSE "")

(* mutant: the test for a recorded executable is inverted *)
NoExecutable_Inverted(data, executable) ==
    executable = None /\ get_last_used(data) # None

(* line 239: no executable given and none recorded *)
NoExecutable(data, executable) == executable = None /\ get_last_used(data) = None


(* ------------------------------ inputs ------------------------------ *)
(* executables that may exist on disk, by canonical path; the working  *)
(* directory holds no file named LASTUSED, so isfile("LASTUSED") fails *)
Executables == {<<"/", "w", "foo">>, <<"/", "w", "d", "foo.out">>}

(* spellings of -x EXECUTABLE: relative, with "..", absolute *)
ExeArgs == {<<"foo">>, <<"/", "w", "foo">>, <<"..", "w", "d", "foo.out">>}

(* the executable that may not have been built when the commands run *)
Unbuilt == {<<"/", "w", "d", "foo.out">>}

OptExeArgs == ExeArgs \cup {None}

SourceArgs == {<<"src", "main.c">>, <<"util.c">>}

(* ------------------------------- state ------------------------------- *)
VARIABLES
    config,    \* .dbg/config.json: [exists, data]
    scripts,   \* the .lldb files of .dbg: name without suffix -> content
    files,     \* regular files on disk outside .dbg
    mem,       \* self._data of the last invocation when its process ended
    last,      \* the last invocation: arguments, outcome, debugger launch
    written,   \* the script files the last invocation wrote, in order
    lastRef,   \* history: canonical path of the last executable named with -x
    n          \* number of invocations so far

vars == <<config, scripts, files, mem, last, written, lastRef, n>>

Invocation(cmd, x, src, line, all, outcome, resolved, launch) ==
    [cmd |-> cmd, exe |-> x, src |-> src, line |-> line, all |-> all,
     outcome |-> outcome, resolved |-> resolved, launch |-> launch]

Init ==
    /\ config = NoFile
    /\ scripts = EmptyDir
    /\ files \in {Executables \ gone : gone \in SUBSET Unbuilt}
    /\ mem = <<>>
    /\ last = Invocation("", None, None, 0, FALSE, "", None, NoLaunch)
    /\ written = <<>>
    /\ lastRef = None
    /\ n = 0

(* every invocation: count it, remember the executable it named *)
Ran(x) ==
    /\ n < MaxCmds
    /\ n' = n + 1
    /\ lastRef' = IF x = None THEN lastRef ELSE canon_path(x)
    /\ UNCHANGED files

(* lines 239-241: print_help, sys.exit(1) *)
Help(cmd, x, src, line, all) ==
    /\ last' = Invocation(cmd, x, src, line, all, "help", None, NoLaunch)
    /\ mem' = load(config)
    /\ written' = <<>>
    /\ UNCHANGED <<config, scripts>>

(* a command that does not save, or that raised before saving *)
NoSave(inv, data) ==
    /\ last' = inv
    /\ mem' = data
    /\ written' = <<>>
    /\ UNCHANGED <<config, scripts>>

(* a command followed by config.save() *)
Persist(inv, data, sv) ==
    /\ last' = [inv EXCEPT !.outcome = IF sv.err = "" THEN "ok" ELSE sv.err]
    /\ mem' = data
    /\ written' = sv.log
    /\ config' = sv.cfg
    /\ scripts' = sv.dir

Save(inv, data) == Persist(inv, data, save(data, files, config, scripts))

Resolved(data, x) == IF x = None THEN get_last_used(data) ELSE x

Started(x, d) ==
    NoSave(Invocation("start", x, None, 0, FALSE, IF d.err = "" THEN "exec" ELSE d.err,
                      get_last_used(d.data), d.launch), d.data)

Start(x) ==
    /\ Ran(x)
    /\ IF NoExecutable(load(config), x) THEN Help("start", x, None, 0, FALSE)
       ELSE Started(x, debug(load(config), x))

(* the handler raised: nothing is saved; else config.save() *)
Handled(inv, r) ==
    IF r.err # "" THEN NoSave([inv EXCEPT !.outcome = r.err], r.data)
    ELSE Save(inv, r.data)

Break(x, source, line) ==
    /\ Ran(x)
    /\ IF NoExecutable(load(config), x) THEN Help("break", x, source, line, FALSE)
       ELSE Handled(Invocation("break", x, source, line, FALSE, "",
                               canon_path(Resolved(load(config), x)), NoLaunch),
                    toggle_breakpoint(load(config), x, source, line))

Clean(x) ==
    /\ Ran(x)
    /\ IF NoExecutable(load(config), x) THEN Help("clean", x, None, 0, FALSE)
       ELSE Handled(Invocation("clean", x, None, 0, FALSE, "",
                               Resolved(load(config), x), NoLaunch),
                    clean_breakpoints(load(config), x))

Wiped(x, c) ==
    /\ last' = Invocation("clean", x, None, 0, TRUE,
                          IF c.err = "" THEN "ok" ELSE c.err, None, NoLaunch)
    /\ mem' = <<>>
    /\ written' = <<>>
    /\ config' = c.cfg
    /\ scripts' = c.dir

CleanAll(x) ==
    /\ Ran(x)
    /\ IF NoExecutable(load(config), x) THEN Help("clean", x, None, 0, TRUE)
       ELSE Wiped(x, clean(config, scripts))

Touch(x) ==
    /\ Ran(x)
    /\ Save(Invocation("touch", x, None, 0, FALSE, "", canon_path(x), NoLaunch),
            set_last_used(load(config), x))

Printed(inv, r) == NoSave([inv EXCEPT !.outcome = IF r.err = "" THEN "ok" ELSE r.err], r.data)

PrintBreakpoints(x) ==
    /\ Ran(x)
    /\ IF NoExecutable(load(config), x) THEN Help("print", x, None, 0, FALSE)
       ELSE Printed(Invocation("print", x, None, 0, FALSE, "",
                               Resolved(load(config), x), NoLaunch),
                    print_breakpoints(load(config), x))

Built(x, e) ==
    /\ last' = Invocation("build", x, None, 0, FALSE,
                          IF e.err = "" THEN "ok" ELSE e.err, None, NoLaunch)
    /\ mem' = load(config)
    /\ written' = e.log
    /\ scripts' = e.dir
    /\ UNCHANGED config

Build(x) ==
    /\ Ran(x)
    /\ IF NoExecutable(load(config), x) THEN Help("build", x, None, 0, FALSE)
       ELSE Built(x, export_commands(load(config), files, scripts))

Next ==
    \/ \E x \in OptExeArgs : Start(x)
    \/ \E x \in OptExeArgs, source \in SourceArgs, line \in Lines : Break(x, source, line)
    \/ \E x \in OptExeArgs : Clean(x)
    \/ \E x \in OptExeArgs : CleanAll(x)
    \/ \E x \in ExeArgs : Touch(x)
    \/ \E x \in OptExeArgs : PrintBreakpoints(x)
    \/ \E x \in OptExeArgs : Build(x)

Spec == Init /\ [][Next]_vars

(* the store under break, clean and touch alone, every executable built *)
InitStore == Init /\ files = Executables

NextStore ==
    \/ \E x \in OptExeArgs, source \in SourceArgs, line \in Lines : Break(x, source, line)
    \/ \E x \in OptExeArgs : Clean(x)
    \/ \E x \in ExeArgs : Touch(x)

SpecStore == InitStore /\ [][NextStore]_vars

(* what a process exits with: 1 after print_help or an uncaught exception *)
ExitCode(outcome) == IF outcome \in {"ok", "exec", ""} THEN 0 ELSE 1


(* ------------------------- properties: helpers ------------------------ *)
Store == load(config)

ExeKeys(d) == Keys(d) \ {LASTUSED}

(* an executable's list for a source file; no list reads as the empty list *)
ListOf(d, exe, src) ==
    IF HasKey(d, exe) /\ HasSrc(Breakpoints(d, exe), src)
    THEN Breakpoints(d, exe)[SrcIndex(Breakpoints(d, exe), src)].lines
    ELSE <<>>

Elems(s) == {s[i] : i \in 1..Len(s)}

Count(s, x) == Cardinality({i \in 1..Len(s) : s[i] = x})

Without(s, x) == SelectSeq(s, LAMBDA v : v # x)

BaseNames == {s[Len(s)] : s \in SourceArgs}

Stepped == n' = n + 1

(* the list of (x, s) once toggle_breakpoint(x, s, l) has run on d twice *)
TwiceToggled(d, x, s, l) ==
    ListOf(toggle_breakpoint(toggle_breakpoint(d, x, s, l).data, x, s, l).data,
           canon_path(x), s[Len(s)])

(* C1 as stated: toggling the same (executable, file, line) twice in a  *)
(* row leaves that file's breakpoint list exactly as it was, same lines *)
(* in the same order, whether the line was absent or present.           *)
C1_DoubleToggleRestoresList ==
    \A x \in Executables, s \in SourceArgs, l \in Lines :
        TwiceToggled(Store, x, s, l) = ListOf(Store, canon_path(x), s[Len(s)])

(* the list with line l at its end if it held l, the list itself if not *)
MovedToEnd(before, l) ==
    IF Count(before, l) = 0 THEN before ELSE Append(Without(before, l), l)

(* C1 amended: toggling twice in a row keeps the set of lines; a line   *)
(* that was absent leaves the list exactly as it was, a line that was   *)
(* present ends up moved to the end of the list (so the list is         *)
(* restored exactly only when the line was its last element).           *)
C1_DoubleToggleMovesToEnd ==
    \A x \in Executables, s \in SourceArgs, l \in Lines :
        TwiceToggled(Store, x, s, l)
            = MovedToEnd(ListOf(Store, canon_path(x), s[Len(s)]), l)

(* a break command ran on a store holding a list of two lines, so both  *)
(* a present non-last line and a present last line get toggled twice    *)
C1_Witness ==
    /\ last.cmd = "break" /\ last.outcome = "ok"
    /\ \E k \in ExeKeys(Store), src \in BaseNames : Len(ListOf(Store, k, src)) >= 2

(* C2: from an empty store, after any sequence of break, clean and      *)
(* touch commands no line occurs twice in any list; a toggle of an      *)
(* absent line adds one occurrence, a toggle of a present line removes it *)
NoDuplicateLines(d) ==
    \A k \in ExeKeys(d), src \in BaseNames, l \in Lines : Count(ListOf(d, k, src), l) <= 1

ToggleAddsOrRemoves ==
    (Stepped /\ last'.cmd = "break" /\ last'.outcome = "ok") =>
        LET src == last'.src[Len(last'.src)]
            before == ListOf(load(config), last'.resolved, src)
            after == ListOf(load(config'), last'.resolved, src)
        IN /\ Count(before, last'.line) = 0 => Count(after, last'.line) = 1
           /\ Count(before, last'.line) >= 1 => Count(after, last'.line) = 0
           /\ \A l \in Lines \ {last'.line} : Count(after, l) = Count(before, l)

C2_NoDuplicates ==
    /\ [](NoDuplicateLines(Store) /\ NoDuplicateLines(mem))
    /\ [][ToggleAddsOrRemoves]_vars

(* a toggle removed a line: the list is there and empty *)
C2_Witness ==
    /\ last.cmd = "break" /\ last.outcome = "ok"
    /\ \E k \in ExeKeys(Store) : \E j \in 1..Len(Breakpoints(Store, k)) :
          Breakpoints(Store, k)[j].lines = <<>>

(* C3: every executable key of the store is a canonical path (absolute, *)
(* no "." or ".." component), whatever spelling the commands were given, *)
(* and no executable has two entries.                                   *)
IsCanonical(p) ==
    /\ Len(p) >= 1 /\ p[1] = "/"
    /\ \A i \in 2..Len(p) : p[i] \notin {"/", ".", ".."}

DistinctKeys(d) == \A i, j \in 1..Len(d) : d[i].k = d[j].k => i = j

C3_KeysCanonical ==
    \A d \in {Store, mem} :
        /\ \A k \in ExeKeys(d) : IsCanonical(k)
        /\ DistinctKeys(d)
        /\ Cardinality(ExeKeys(d)) <= Cardinality(Executables)

(* a break given a relative spelling with ".." made or found its entry *)
C3_Witness ==
    /\ last.cmd = "break" /\ last.outcome = "ok"
    /\ last.exe = <<"..", "w", "d", "foo.out">>
    /\ <<"/", "w", "d", "foo.out">> \in ExeKeys(Store)
    /\ <<"/", "w", "foo">> \in ExeKeys(Store)

(* C4 as stated: a command without an explicit executable resolves to   *)
(* the canonical path of the executable most recently named by an       *)
(* earlier command, in particular after start -x E.                     *)
C4_DefaultIsMostRecentlyReferenced ==
    (/\ last.exe = None
     /\ last.cmd \in {"start", "break", "clean", "print"} /\ ~last.all
     /\ last.outcome # "help")
        => last.resolved = lastRef

(* C5 as stated: clean --all completes from every reachable state and   *)
(* leaves neither config.json nor any .lldb file; Load then gives an    *)
(* empty store.                                                         *)
C5_CleanAllCompletes ==
    (last.cmd = "clean" /\ last.all /\ last.outcome # "help") =>
        /\ last.outcome = "ok"
        /\ ~config.exists
        /\ DOMAIN scripts = {}
        /\ load(config) = <<>>

Saving == {"break", "clean", "touch"}

OnDisk(d) == {k \in ExeKeys(d) : k \in files}

EntryOf(d, k) == d[CHOOSE i \in 1..Len(d) : d[i].k = k]

(* C6 as stated: after every save each executable key that exists on    *)
(* disk has its own script file, holding the commands of its own        *)
(* breakpoints.                                                         *)
C6_OneScriptPerExecutable ==
    (last.cmd \in Saving /\ ~last.all /\ last.outcome = "ok") =>
        /\ \A k \in OnDisk(Store) :
              /\ raw_name(k) \in DOMAIN scripts
              /\ scripts[raw_name(k)] = Commands(EntryOf(Store, k))
        /\ \A k1, k2 \in OnDisk(Store) : k1 # k2 => raw_name(k1) # raw_name(k2)


(* number of lines recorded in the items before item j *)
RECURSIVE Offset(_, _)
Offset(b, j) == IF j <= 1 THEN 0 ELSE Offset(b, j - 1) + Len(b[j - 1].lines)

(* the script text of an entry, stated position by position *)
IsScriptOf(content, e) ==
    /\ Len(content) = 1 + Offset(e.b, Len(e.b) + 1)
    /\ content[1] = [cmd |-> "file", path |-> e.k, src |-> "", line |-> 0]
    /\ \A j \in 1..Len(e.b) : \A i \in 1..Len(e.b[j].lines) :
          content[1 + Offset(e.b, j) + i] =
              [cmd |-> "breakpoint set", path |-> None,
               src |-> e.b[j].src, line |-> e.b[j].lines[i]]

Exporting == Saving \cup {"build"}

(* C7: ExportCommands writes, for every executable key that exists on   *)
(* disk, "file <path>" followed by one "breakpoint set" line per        *)
(* recorded (file, line) in stored order and nothing else; an empty     *)
(* list adds no line; keys missing from disk are skipped without error. *)
C7_ExportedScriptText ==
    (/\ last.cmd \in Exporting /\ ~last.all /\ last.outcome # "help"
     /\ ~(last.cmd = "clean" /\ last.outcome = "KeyError")) =>
        /\ last.outcome = "ok"
        /\ {written[i].key : i \in 1..Len(written)} = OnDisk(mem)
        /\ Len(written) = Cardinality(OnDisk(mem))
        /\ \A i \in 1..Len(written) :
              /\ IsScriptOf(written[i].content, EntryOf(mem, written[i].key))
              /\ written[i].name = splitext_root(written[i].key[Len(written[i].key)])

(* an export wrote a script with two breakpoint lines and skipped a key *)
(* whose executable is not on disk                                      *)
C7_Witness ==
    /\ last.cmd \in Exporting /\ last.outcome = "ok"
    /\ \E i \in 1..Len(written) : Len(written[i].content) >= 3
    /\ ExeKeys(mem) \ files # {}

(* C8 as stated: clean on an executable that has an entry, named by any *)
(* spelling or defaulted to last-used, empties every list of that       *)
(* executable and leaves the other executables' breakpoints unchanged.  *)
C8_CleanEmptiesOnlyTarget ==
    [][(/\ Stepped /\ last'.cmd = "clean" /\ ~last'.all
        /\ last'.outcome # "help"
        /\ HasKey(load(config), IF last'.exe = None THEN get_last_used(load(config))
                                ELSE canon_path(last'.exe)))
       => LET t == IF last'.exe = None THEN get_last_used(load(config))
                   ELSE canon_path(last'.exe)
          IN /\ \A src \in BaseNames : ListOf(load(config'), t, src) = <<>>
             /\ \A k \in ExeKeys(load(config)) \ {t} :
                   /\ HasKey(load(config'), k)
                   /\ Breakpoints(load(config'), k) = Breakpoints(load(config), k)]_vars

(* C9: with no executable given and none recorded, start, break, clean, *)
(* print and build print help and exit with 1 before doing anything:    *)
(* config.json and the script files stay as they were.                  *)
C9_NoExecutableExitsWithHelp ==
    [][(/\ Stepped /\ last'.exe = None
        /\ \A i \in 1..Len(load(config)) : load(config)[i].k # LASTUSED)
       => /\ last'.outcome = "help"
          /\ ExitCode(last'.outcome) = 1
          /\ last'.launch.mode = ""
          /\ config' = config /\ scripts' = scripts /\ written' = <<>>]_vars

(* break without an executable on a store without last-used got help *)
C9_Witness ==
    /\ last.cmd = "break" /\ last.exe = None /\ last.outcome = "help"
    /\ n >= 2

(* C10 as stated: when Debug resolves to a key of entries, the script   *)
(* it hands to the debugger exists and holds the commands of that       *)
(* executable's persisted breakpoints; otherwise the debugger is        *)
(* launched on the canonical path with no script.                       *)
C10_DebugScriptIsCurrent ==
    (last.cmd = "start" /\ last.outcome = "exec") =>
        IF HasKey(Store, last.resolved)
        THEN /\ last.launch.mode = "script"
             /\ last.launch.script \in DOMAIN scripts
             /\ scripts[last.launch.script] = Commands(EntryOf(Store, last.resolved))
        ELSE /\ last.launch.mode = "direct"
             /\ last.launch.target = last.resolved
             /\ IsCanonical(last.launch.target)

=============================================================================
